---- MODULE Spec2Model ----
(***************************************************************************)
(* A model of the card game backend (src/unnamed/part_000, the variant     *)
(* with statistics, defuse handling and the leaderboard hub; src/main2.go  *)
(* is the earlier variant of the same handlers).                           *)
(*                                                                         *)
(* The Redis store is the shared state.  Every Redis command of a handler  *)
(* is one atomic step; the handlers of concurrent requests interleave      *)
(* between commands, as the goroutines gin starts per request do.          *)
(***************************************************************************)
EXTENDS Integers, Sequences, FiniteSets, TLC

(***************************************************************************)
(* Bounds of the model.                                                    *)
(***************************************************************************)
NumProcs == 2        \* request handlers that can be in flight at once
NumUsers == 2        \* usernames
MaxRequests == 4     \* requests served in one behaviour of the game routes
NumShuffles == 2     \* outcomes of rand.Shuffle that are explored
NumConns == 2        \* websocket connections
NumHubProcs == 1     \* request handlers in flight beside the websocket route
MaxHubRequests == 3  \* requests served beside the websocket route
MaxHubConns == 1     \* websocket connections beside the game routes
MaxPublishes == 2    \* calls of broadcastLeaderboard in one behaviour

Procs == 1..NumProcs
HubProcs == 1..NumHubProcs
Users == 1..NumUsers
Conns == 1..NumConns

(***************************************************************************)
(* Cards and the deck of initializeDeck / resetGame.                       *)
(***************************************************************************)
Cat == "Cat"
Defuse == "Defuse"
Shuffle == "Shuffle"
ExplodingKitten == "Exploding Kitten"

\* A faulty shuffledDeck: one Cat card is left out of the literal.
shuffledDeck_OneCat == <<Cat, Defuse, Shuffle, ExplodingKitten>>

shuffledDeck == <<Cat, Cat, Defuse, Shuffle, ExplodingKitten>>

\* The value of a hash field that is not set (HGet answers redis.Nil).
Absent == -1

\* rand.Shuffle: any permutation may come out; the ones explored are the
\* rotations of the literal deck by 1..NumShuffles places.
randShuffle(s, k) ==
    [i \in 1..Len(s) |-> s[((i - 1 + k) % Len(s)) + 1]]

ShuffleChoices == 1..NumShuffles

\* strconv.Atoi of a stored field: the fields are written as decimal
\* integers; the empty string of a missing field does not convert and the
\* callers take 0.
Atoi(v) == IF v = Absent THEN 0 ELSE v

\* A faulty LRem: LREM key 0 value, which removes every occurrence.
LRem_All(s, v) == SelectSeq(s, LAMBDA x : x # v)

\* LREM key 1 value: removes the first occurrence of value, if any.
LRem(s, v) ==
    IF \E i \in 1..Len(s) : s[i] = v
    THEN LET i == CHOOSE i \in 1..Len(s) :
                     s[i] = v /\ \A j \in 1..(i - 1) : s[j] # v
         IN  SubSeq(s, 1, i - 1) \o SubSeq(s, i + 1, Len(s))
    ELSE s

\* Number of occurrences of a card in a deck.
Count(s, v) == Cardinality({i \in 1..Len(s) : s[i] = v})

VARIABLES
    deck,       \* deck[u]: the Redis list "deck:"+u (<<>>: no such key)
    win,        \* win[u]: field u of the hash "win", or Absent
    lose,       \* lose[u]: field u of the hash "lose", or Absent
    defuse,     \* defuse[u]: field "defuse" of the hash "user:"+u, or Absent
    pc,         \* pc[p]: where handler p is
    op,         \* op[p]: the route handler p serves
    usr,        \* usr[p]: user.Username of the request
    drawnCard,  \* drawnCard[p]: the card drawCard selected
    newDeck,    \* newDeck[p]: startGame's second LRange result
    count,      \* count[p]: winCount / loseCount of updateUserStats
    defuseCount,\* defuseCount[p]: handleDrawnCard's defuseCount
    isWin,      \* isWin[p]: the argument of updateUserStats
    resp,       \* the last response written by c.JSON (and whether the
                \* request that wrote it ran alone, on an existing session)
    quota,      \* requests that are still to come in this behaviour
    clients,    \* the connections in the map clients
    wsPc,       \* wsPc[c]: where serveWs is for connection c ("new": c is
                \* still to come, "none": c does not come in this behaviour)
    winData,    \* winData[c]: fetchAllUserStats' HGetAll("win") result
    leaderboardData, \* leaderboardData[c]: what fetchAllUserStats returned
                \* to sendLeaderboard
    outbox,     \* outbox[c]: the leaderboards written to connection c, each
                \* with the function that wrote it and the number of the
                \* broadcast (0 for sendLeaderboard)
    mutex,      \* the mutex of clients is locked
    connClosed, \* the connections conn.Close() was called on
    broken,     \* the connections whose peer is gone
    pingPc,     \* pingPc[c]: where the ping goroutine of serveWs is
    bcPc,       \* where broadcastLeaderboard is
    bcWinData,  \* fetchAllUserStats' HGetAll("win") result in the broadcast
    bcData,     \* leaderboardData of broadcastLeaderboard
    bcTodo,     \* the connections the range over clients has yet to reach
    bcConn,     \* conn of the range over clients
    npub,       \* calls of broadcastLeaderboard so far
    \* history variables (not program state)
    alone,      \* alone[p]: no other request of usr[p] overlapped p's request
    pre,        \* pre[p]: the counters, the deck and the defuse count of
                \* usr[p] when p's request began, and whether usr[p] had a
                \* session then
    started,    \* started[u]: startGame has been called for u
    lastStart,  \* lastStart[u]: the deck the last startGame of u returned,
                \* and how many startGame calls in a row returned it; void
                \* once a drawCard of u is accepted or requests overlapped
    failed,     \* failed[p]: a Redis command of p's request returned an error
    credit,     \* credit[u]: the Defuse cards drawCard drew for u minus the
                \* defuse counts a drawn Exploding Kitten used up
    bcSeen,     \* the connections in clients when the broadcast locked
    changed,    \* changed[c]: the usernames a drawCard changed a counter of
                \* while c was in clients
    expected    \* expected[u]: the last value startGame stored in lose[u]
                \* plus the loss events recorded since; Unknown once a
                \* startGame stored it between the HGet and the HSet of a
                \* loss event

store == <<deck, win, lose, defuse>>
local == <<pc, op, usr, drawnCard, newDeck, count, defuseCount, isWin, resp, quota>>
ws == <<wsPc, winData, leaderboardData, pingPc>>
bc == <<bcPc, bcWinData, bcData, bcTodo, bcConn, bcSeen, npub>>
hub == <<clients, outbox, mutex, connClosed, broken, ws, bc>>
hist == <<started, lastStart, expected, credit>>
vars == <<deck, win, lose, defuse, pc, op, usr, drawnCard, newDeck, count,
          defuseCount, isWin, resp, quota, clients, wsPc, winData, outbox,
          leaderboardData, mutex, connClosed, broken, pingPc, bcPc, bcWinData, bcData, bcTodo,
          bcConn, npub, bcSeen,
          alone, pre, started, lastStart, changed, expected, credit, failed>>
game == <<store, local, alone, pre, hist, changed, failed>>

NoResp == [user |-> 0, kind |-> "none", deck |-> <<>>, alone |-> FALSE,
           session |-> FALSE]
NoStart == [valid |-> FALSE, deck |-> <<>>, calls |-> 0]
NoPre == [win |-> Absent, lose |-> Absent, session |-> FALSE,
          deck |-> <<>>, defuse |-> Absent]
Unknown == 0 - 2
NoConn == 0

\* The state of the started server with an empty store, and the number of
\* requests and of websocket connections the behaviour has.
Started(requests, conns) ==
    /\ deck = [u \in Users |-> <<>>]
    /\ win = [u \in Users |-> Absent]
    /\ lose = [u \in Users |-> Absent]
    /\ defuse = [u \in Users |-> Absent]
    /\ pc = [p \in Procs |-> "idle"]
    /\ op = [p \in Procs |-> "none"]
    /\ usr = [p \in Procs |-> 1]
    /\ drawnCard = [p \in Procs |-> ""]
    /\ newDeck = [p \in Procs |-> <<>>]
    /\ count = [p \in Procs |-> 0]
    /\ defuseCount = [p \in Procs |-> 0]
    /\ isWin = [p \in Procs |-> FALSE]
    /\ resp = NoResp
    /\ quota = requests
    /\ clients = {}
    /\ wsPc = [c \in Conns |-> IF c <= conns THEN "new" ELSE "none"]
    /\ winData = [c \in Conns |-> [u \in Users |-> Absent]]
    /\ leaderboardData = [c \in Conns |-> {}]
    /\ outbox = [c \in Conns |-> <<>>]
    /\ mutex = FALSE
    /\ connClosed = {}
    /\ broken = {}
    /\ pingPc = [c \in Conns |-> "none"]
    /\ bcPc = "idle"
    /\ bcWinData = [u \in Users |-> Absent]
    /\ bcData = {}
    /\ bcTodo = {}
    /\ bcConn = NoConn
    /\ npub = 0
    /\ bcSeen = {}
    /\ changed = [c \in Conns |-> {}]
    /\ alone = [p \in Procs |-> TRUE]
    /\ pre = [p \in Procs |-> NoPre]
    /\ started = [u \in Users |-> FALSE]
    /\ lastStart = [u \in Users |-> NoStart]
    /\ expected = [u \in Users |-> 0]
    /\ credit = [u \in Users |-> 0]
    /\ failed = [p \in Procs |-> FALSE]

Init == Started(MaxRequests, NumConns)

InitHub == Started(MaxHubRequests, MaxHubConns)

\* Handlers other than p that are serving a request of user u.
Others(p, u) == {q \in Procs \ {p} : pc[q] # "idle" /\ usr[q] = u}

\* A startGame of username u has returned and none is being served: the
\* session of u exists.
HasSession(u) ==
    /\ started[u]
    /\ ~\E q \in Procs : pc[q] # "idle" /\ op[q] = "startGame" /\ usr[q] = u

\* gin dispatches a request to a free handler (which one is immaterial:
\* the first free one), and the handler binds the request body.
Accept(p, u, route, first) ==
    /\ pc[p] = "idle"
    /\ \A q \in Procs : q < p => pc[q] # "idle"
    /\ quota > 0
    /\ quota' = quota - 1
    /\ pc' = [pc EXCEPT ![p] = first]
    /\ op' = [op EXCEPT ![p] = route]
    /\ usr' = [usr EXCEPT ![p] = u]
    /\ UNCHANGED resp
    /\ alone' = [q \in Procs |->
                    IF q = p THEN Others(p, u) = {}
                    ELSE IF q \in Others(p, u) THEN FALSE ELSE alone[q]]
    /\ pre' = [pre EXCEPT ![p] = [win |-> win[u], lose |-> lose[u],
                                  session |-> HasSession(u),
                                  deck |-> deck[u], defuse |-> defuse[u]]]
    /\ failed' = [failed EXCEPT ![p] = FALSE]
    /\ UNCHANGED <<store, drawnCard, newDeck, count, defuseCount, isWin,
                   expected, credit, hub, changed>>

\* The handler answers (c.JSON) and returns; its locals are gone.
Reply(p, kind, d) ==
    /\ pc' = [pc EXCEPT ![p] = "idle"]
    /\ resp' = [user |-> usr[p], kind |-> kind, deck |-> d,
                alone |-> alone[p], session |-> pre[p].session]
    /\ op' = [op EXCEPT ![p] = "none"]
    /\ usr' = [usr EXCEPT ![p] = 1]
    /\ drawnCard' = [drawnCard EXCEPT ![p] = ""]
    /\ newDeck' = [newDeck EXCEPT ![p] = <<>>]
    /\ count' = [count EXCEPT ![p] = 0]
    /\ defuseCount' = [defuseCount EXCEPT ![p] = 0]
    /\ isWin' = [isWin EXCEPT ![p] = FALSE]
    /\ alone' = [alone EXCEPT ![p] = TRUE]
    /\ pre' = [pre EXCEPT ![p] = NoPre]
    /\ UNCHANGED <<quota, hub>>

\* The answer of a handler whose Redis command returned no error.
Answer(p, kind, d) == Reply(p, kind, d) /\ UNCHANGED failed

\* An answer of a step that changes no counter.
Respond(p, kind, d) == Answer(p, kind, d) /\ UNCHANGED changed

\* The handler goes on to its next Redis command.
Continue(p, label) ==
    /\ pc' = [pc EXCEPT ![p] = label]
    /\ UNCHANGED <<op, usr, resp, quota, alone, pre, hub, changed>>

\* The same after a Redis command that returned no error.
Goto(p, label) == Continue(p, label) /\ UNCHANGED failed

\* The Redis command of this step of handler p returns an error (the store
\* is unreachable); nothing is stored.
Err(p) ==
    /\ failed' = [failed EXCEPT ![p] = TRUE]
    /\ UNCHANGED <<store, hist>>

\* The deck a completed startGame returned, kept while it is the last
\* thing that happened to the user.
Returned(p, d) ==
    IF alone[p]
    THEN [valid |-> TRUE, deck |-> d, calls |-> lastStart[usr[p]].calls + 1]
    ELSE NoStart

(***************************************************************************)
(* startGame                                                               *)
(***************************************************************************)
startGame(p, u) ==
    /\ Accept(p, u, "startGame", "sgCheck")
    /\ started' = [started EXCEPT ![u] = TRUE]
    /\ UNCHANGED lastStart

\* A faulty deckExists: a full deck is not taken for an existing one.
deckExists_Partial(existingDeck) ==
    Len(existingDeck) > 0 /\ Len(existingDeck) < 5

\* "If a deck exists, return the existing deck": len(existingDeck) > 0.
deckExists(existingDeck) == Len(existingDeck) > 0

\* existingDeck := LRange(deckKey, 0, -1); resume, or go on to initialize.
startGame_existingDeck(p) ==
    /\ pc[p] = "sgCheck"
    /\ LET u == usr[p] IN
       IF deckExists(deck[u])
       THEN /\ Respond(p, "Resumed", deck[u])
            /\ lastStart' = [lastStart EXCEPT ![u] = Returned(p, deck[u])]
       ELSE /\ Goto(p, "sgPush")
            /\ UNCHANGED <<drawnCard, newDeck, count, defuseCount, isWin, lastStart>>
    /\ UNCHANGED <<store, started, expected, credit>>

\* initializeDeck: RPush of the shuffled five cards onto the list.
initializeDeck(p) ==
    /\ pc[p] = "sgPush"
    /\ \E k \in ShuffleChoices :
          deck' = [deck EXCEPT ![usr[p]] = @ \o randShuffle(shuffledDeck, k)]
    /\ Goto(p, "sgRange")
    /\ UNCHANGED <<win, lose, defuse, drawnCard, newDeck, count, defuseCount,
                   isWin, started, lastStart, expected, credit>>

\* newDeck := LRange(deckKey, 0, -1)
startGame_newDeck(p) ==
    /\ pc[p] = "sgRange"
    /\ newDeck' = [newDeck EXCEPT ![p] = deck[usr[p]]]
    /\ Goto(p, "sgWin")
    /\ UNCHANGED <<store, drawnCard, count, defuseCount, isWin, started,
                   lastStart, expected, credit>>

\* The value startGame stores for the counters of a new game.
newGameCount(old) == 0

\* rdb.HSet(ctx, "win", user.Username, 0)
startGame_win(p) ==
    /\ pc[p] = "sgWin"
    /\ win' = [win EXCEPT ![usr[p]] = newGameCount(@)]
    /\ Goto(p, "sgLose")
    /\ UNCHANGED <<deck, lose, defuse, drawnCard, newDeck, count, defuseCount,
                   isWin, started, lastStart, expected, credit>>

\* rdb.HSet(ctx, "lose", user.Username, 0), then the "Game started" answer.
startGame_lose(p) ==
    /\ pc[p] = "sgLose"
    /\ LET u == usr[p] IN
       /\ lose' = [lose EXCEPT ![u] = newGameCount(@)]
       /\ expected' = [expected EXCEPT ![u] =
             IF \E q \in Procs : usr[q] = u /\ pc[q] = "usSet" /\ ~isWin[q]
             THEN Unknown ELSE newGameCount(lose[u])]
       /\ Respond(p, "Started", newDeck[p])
       /\ lastStart' = [lastStart EXCEPT ![u] = Returned(p, newDeck[p])]
    /\ UNCHANGED <<deck, win, defuse, started, credit>>

(***************************************************************************)
(* drawCard, handleDrawnCard, updateUserStats, resetGame                   *)
(***************************************************************************)
drawCard(p, u) ==
    /\ Accept(p, u, "drawCard", "dcRange")
    /\ lastStart' = [lastStart EXCEPT ![u] = NoStart]
    /\ UNCHANGED started

\* A faulty emptyDeckIsWin: the empty deck is recorded as a loss.
emptyDeckIsWin_Loss == FALSE

\* updateUserStats(user.Username, true) of the empty-deck branch: isWin.
emptyDeckIsWin == TRUE

\* deck := LRange(deckKey, 0, -1); an empty deck goes to updateUserStats,
\* otherwise drawnCard := deck[rand.Intn(len(deck))].
drawCard_deck(p) ==
    /\ pc[p] = "dcRange"
    /\ LET d == deck[usr[p]] IN
       IF Len(d) = 0
       THEN /\ Goto(p, "usGet")
            /\ isWin' = [isWin EXCEPT ![p] = emptyDeckIsWin]
            /\ UNCHANGED drawnCard
       ELSE /\ \E c \in {d[i] : i \in 1..Len(d)} :
                  drawnCard' = [drawnCard EXCEPT ![p] = c]
            /\ Goto(p, "dcRem")
            /\ UNCHANGED isWin
    /\ UNCHANGED <<store, newDeck, count, defuseCount, hist>>

\* The switch of handleDrawnCard: the Redis command the card leads to.
cardBranch(cardType) ==
    CASE cardType = ExplodingKitten -> "hdDefuseGet"
      [] cardType = Defuse -> "hdDefuseSet"
      [] cardType = Shuffle -> "rgDel"
      [] OTHER -> "cat"

\* LRem(deckKey, 1, drawnCard), then handleDrawnCard's switch; a Cat card
\* is answered at once.
drawCard_LRem(p) ==
    /\ pc[p] = "dcRem"
    /\ deck' = [deck EXCEPT ![usr[p]] = LRem(@, drawnCard[p])]
    /\ IF cardBranch(drawnCard[p]) = "cat"
       THEN Respond(p, "CatDrawn", <<>>)
       ELSE /\ Goto(p, cardBranch(drawnCard[p]))
            /\ UNCHANGED <<drawnCard, newDeck, count, defuseCount, isWin>>
    /\ credit' = [credit EXCEPT ![usr[p]] =
                     IF drawnCard[p] = Defuse THEN @ + 1 ELSE @]
    /\ UNCHANGED <<win, lose, defuse, started, lastStart, expected>>

\* A faulty hasDefuseCard: a count of 0 passes for a held card.
hasDefuseCard_Zero(n) == n >= 0

\* "If user has defuse card": defuseCount > 0.
hasDefuseCard(n) == n > 0

\* hasDefuse := HGet("user:"+username, "defuse"); defuseCount := Atoi.
handleDrawnCard_hasDefuse(p) ==
    /\ pc[p] = "hdDefuseGet"
    /\ defuseCount' = [defuseCount EXCEPT ![p] = Atoi(defuse[usr[p]])]
    /\ Goto(p, IF hasDefuseCard(Atoi(defuse[usr[p]]))
               THEN "hdDefuseUse" ELSE "usGet")
    /\ isWin' = [isWin EXCEPT ![p] = FALSE]
    /\ UNCHANGED <<store, drawnCard, newDeck, count, hist>>

\* rdb.HSet(ctx, "user:"+username, "defuse", 0): the defuse card is used.
handleDrawnCard_defused(p) ==
    /\ pc[p] = "hdDefuseUse"
    /\ defuse' = [defuse EXCEPT ![usr[p]] = 0]
    /\ Respond(p, "Defused", <<>>)
    /\ credit' = [credit EXCEPT ![usr[p]] = @ - 1]
    /\ UNCHANGED <<deck, win, lose, started, lastStart, expected>>

\* rdb.HSet(ctx, "user:"+username, "defuse", 1): a Defuse card is kept.
handleDrawnCard_defuse(p) ==
    /\ pc[p] = "hdDefuseSet"
    /\ defuse' = [defuse EXCEPT ![usr[p]] = 1]
    /\ Respond(p, "DefuseAcquired", <<>>)
    /\ UNCHANGED <<deck, win, lose, hist>>

\* The answer of the caller of updateUserStats: 400 "No cards left in the
\* deck" of drawCard, "You lose!" of handleDrawnCard.
statsAnswer(p) == IF drawnCard[p] = "" THEN "DeckExhausted" ELSE "PlayerLost"

\* updateUserStats: newWinCount := winCount + 1, newLoseCount := loseCount + 1.
newCount(n) == n + 1

\* updateUserStats: winStr := HGet("win", username) if isWin, else
\* loseStr := HGet("lose", username); the count is Atoi of it, 0 if missing.
updateUserStats_HGet(p) ==
    /\ pc[p] = "usGet"
    /\ count' = [count EXCEPT ![p] =
                    IF isWin[p] THEN Atoi(win[usr[p]]) ELSE Atoi(lose[usr[p]])]
    /\ Goto(p, "usSet")
    /\ UNCHANGED <<store, drawnCard, newDeck, defuseCount, isWin, hist>>

\* updateUserStats: HSet("win", username, newWinCount) if isWin, else
\* HSet("lose", username, newLoseCount); then the caller's answer.  (After
\* a loss handleDrawnCard also sends an HSet on "defuse:"+username with a
\* field and no value: Redis refuses it and nothing is stored.)
updateUserStats_HSet(p) ==
    /\ pc[p] = "usSet"
    /\ LET u == usr[p] IN
       IF isWin[p]
       THEN /\ win' = [win EXCEPT ![u] = newCount(count[p])]
            /\ UNCHANGED <<lose, expected>>
       ELSE /\ lose' = [lose EXCEPT ![u] = newCount(count[p])]
            /\ expected' = [expected EXCEPT ![u] =
                  IF @ = Unknown THEN Unknown ELSE @ + 1]
            /\ UNCHANGED win
    /\ Answer(p, statsAnswer(p), <<>>)
    /\ changed' = [c \in Conns |->
                      IF c \in clients THEN changed[c] \cup {usr[p]}
                      ELSE changed[c]]
    /\ UNCHANGED <<deck, defuse, started, lastStart, credit>>

\* A faulty resetGame_Del: the key lacks the username and the Del takes
\* the deck of every username.
resetGame_DelAll(p) ==
    /\ pc[p] = "rgDel"
    /\ deck' = [u \in Users |-> <<>>]
    /\ Goto(p, "rgPush")
    /\ UNCHANGED <<win, lose, defuse, drawnCard, newDeck, count, defuseCount,
                   isWin, hist>>

\* drawCard: LRange returns an error; 500 "Error retrieving deck".
drawCard_deck_err(p) ==
    /\ pc[p] = "dcRange"
    /\ Err(p)
    /\ Reply(p, "StorageError", <<>>)
    /\ UNCHANGED changed

\* drawCard: LRem returns an error; 500 "Error removing card from deck".
drawCard_LRem_err(p) ==
    /\ pc[p] = "dcRem"
    /\ Err(p)
    /\ Reply(p, "StorageError", <<>>)
    /\ UNCHANGED changed

\* handleDrawnCard: the HGet of the defuse count returns an error, which is
\* logged; hasDefuse is "" and defuseCount, its Atoi, is 0.
handleDrawnCard_hasDefuse_err(p) ==
    /\ pc[p] = "hdDefuseGet"
    /\ Err(p)
    /\ defuseCount' = [defuseCount EXCEPT ![p] = 0]
    /\ Continue(p, IF hasDefuseCard(0) THEN "hdDefuseUse" ELSE "usGet")
    /\ isWin' = [isWin EXCEPT ![p] = FALSE]
    /\ UNCHANGED <<drawnCard, newDeck, count>>

\* updateUserStats: the HGet of the counter returns an error other than
\* redis.Nil, which is logged; updateUserStats returns without a write.
updateUserStats_HGet_err(p) ==
    /\ pc[p] = "usGet"
    /\ Err(p)
    /\ Reply(p, statsAnswer(p), <<>>)
    /\ UNCHANGED changed

\* updateUserStats: the HSet of the counter returns an error, which is
\* logged; updateUserStats returns.
updateUserStats_HSet_err(p) ==
    /\ pc[p] = "usSet"
    /\ Err(p)
    /\ Reply(p, statsAnswer(p), <<>>)
    /\ UNCHANGED changed

\* resetGame: rdb.Del(ctx, deckKey)
resetGame_Del(p) ==
    /\ pc[p] = "rgDel"
    /\ deck' = [deck EXCEPT ![usr[p]] = <<>>]
    /\ Goto(p, "rgPush")
    /\ UNCHANGED <<win, lose, defuse, drawnCard, newDeck, count, defuseCount,
                   isWin, hist>>

\* resetGame: rdb.RPush(ctx, deckKey, randomCards), the shuffled five cards.
resetGame_RPush(p) ==
    /\ pc[p] = "rgPush"
    /\ \E k \in ShuffleChoices :
          deck' = [deck EXCEPT ![usr[p]] = @ \o randShuffle(shuffledDeck, k)]
    /\ Goto(p, "rgDefuse")
    /\ UNCHANGED <<win, lose, defuse, drawnCard, newDeck, count, defuseCount,
                   isWin, hist>>

\* resetGame: rdb.HSet(ctx, "user:"+username, "defuse", 0), then the
\* "deck is reshuffled" answer of handleDrawnCard.
resetGame_defuse(p) ==
    /\ pc[p] = "rgDefuse"
    /\ defuse' = [defuse EXCEPT ![usr[p]] = 0]
    /\ Respond(p, "DeckReshuffled", <<>>)
    /\ UNCHANGED <<deck, win, lose, hist>>

(***************************************************************************)
(* serveWs, sendLeaderboard, fetchAllUserStats, broadcastLeaderboard       *)
(***************************************************************************)
\* What a write on connection c can return (TRUE: written, FALSE: error):
\* a closed connection refuses the write, a broken one (peer gone) may
\* still take it into its buffers or fail, an intact one takes it.
WriteResults(c) ==
    IF c \in connClosed THEN {FALSE}
    ELSE IF c \in broken THEN {TRUE, FALSE}
    ELSE {TRUE}

\* The peer of connection c goes away or the network drops the connection.
connBreaks(c) ==
    /\ wsPc[c] \notin {"none", "new", "closed"}
    /\ c \notin broken
    /\ c \notin connClosed
    /\ broken' = broken \cup {c}
    /\ UNCHANGED <<game, clients, wsPc, winData, leaderboardData, outbox,
                   mutex, connClosed, pingPc, bc>>

\* serveWs: the connection is upgraded and put into clients under the mutex.
serveWs_register(c) ==
    /\ wsPc[c] = "new"
    /\ ~mutex
    /\ clients' = clients \cup {c}
    /\ wsPc' = [wsPc EXCEPT ![c] = "fetchWin"]
    /\ UNCHANGED <<game, winData, leaderboardData, outbox, mutex, connClosed,
                   broken, pingPc, bc>>

\* fetchAllUserStats: winData := HGetAll("win")
fetchAllUserStats_winData(c) ==
    /\ wsPc[c] = "fetchWin"
    /\ winData' = [winData EXCEPT ![c] = win]
    /\ wsPc' = [wsPc EXCEPT ![c] = "fetchLose"]
    /\ UNCHANGED <<game, clients, leaderboardData, outbox, mutex, connClosed,
                   broken, pingPc, bc>>

\* fetchAllUserStats: one record for every username of winData, with the
\* lose count of loseData, "0" if loseData has none.
fetchAllUserStats(wins, loseData) ==
    {[username |-> u, win |-> wins[u],
      lose |-> IF loseData[u] = Absent THEN 0 ELSE loseData[u]] :
        u \in {v \in Users : wins[v] # Absent}}

\* The deferred function of serveWs: the connection leaves clients under
\* the mutex and is closed.
serveWs_defer(c) ==
    /\ ~mutex
    /\ clients' = clients \ {c}
    /\ connClosed' = connClosed \cup {c}
    /\ wsPc' = [wsPc EXCEPT ![c] = "closed"]
    /\ winData' = [winData EXCEPT ![c] = [u \in Users |-> Absent]]
    /\ leaderboardData' = [leaderboardData EXCEPT ![c] = {}]

\* sendLeaderboard / fetchAllUserStats: loseData := HGetAll("lose");
\* leaderboardData is built and its WriteJSON begins.
fetchAllUserStats_loseData(c) ==
    /\ wsPc[c] = "fetchLose"
    /\ leaderboardData' = [leaderboardData EXCEPT
                              ![c] = fetchAllUserStats(winData[c], lose)]
    /\ winData' = [winData EXCEPT ![c] = [u \in Users |-> Absent]]
    /\ wsPc' = [wsPc EXCEPT ![c] = "send"]
    /\ UNCHANGED <<game, clients, outbox, mutex, connClosed, broken, pingPc, bc>>

\* A faulty sendLeaderboard: the leaderboard goes to every connection of
\* clients.
sendLeaderboard_All(c) ==
    /\ wsPc[c] = "send"
    /\ \E written \in WriteResults(c) :
          IF written
          THEN /\ outbox' = [d \in Conns |->
                     IF d \in clients
                     THEN Append(outbox[d],
                                 [by |-> "sendLeaderboard", publish |-> 0,
                                  data |-> leaderboardData[c]])
                     ELSE outbox[d]]
               /\ wsPc' = [wsPc EXCEPT ![c] = "reading"]
               /\ pingPc' = [pingPc EXCEPT ![c] = "ticking"]
               /\ leaderboardData' = [leaderboardData EXCEPT ![c] = {}]
               /\ UNCHANGED <<clients, connClosed, winData>>
          ELSE /\ serveWs_defer(c)
               /\ UNCHANGED <<outbox, pingPc>>
    /\ UNCHANGED <<game, mutex, broken, bc>>

\* sendLeaderboard: conn.WriteJSON(leaderboardData) to the new connection
\* returns; serveWs returns if the write failed, otherwise it starts the
\* ping goroutine and goes on to read.
sendLeaderboard(c) ==
    /\ wsPc[c] = "send"
    /\ \E written \in WriteResults(c) :
          IF written
          THEN /\ outbox' = [outbox EXCEPT ![c] =
                     Append(@, [by |-> "sendLeaderboard", publish |-> 0,
                                data |-> leaderboardData[c]])]
               /\ wsPc' = [wsPc EXCEPT ![c] = "reading"]
               /\ pingPc' = [pingPc EXCEPT ![c] = "ticking"]
               /\ leaderboardData' = [leaderboardData EXCEPT ![c] = {}]
               /\ UNCHANGED <<clients, connClosed, winData>>
          ELSE /\ serveWs_defer(c)
               /\ UNCHANGED <<outbox, pingPc>>
    /\ UNCHANGED <<game, mutex, broken, bc>>

\* serveWs: conn.ReadMessage returns an error (the connection is broken or
\* closed), the loop breaks and serveWs returns.
serveWs_ReadMessage(c) ==
    /\ wsPc[c] = "reading"
    /\ c \in broken \cup connClosed
    /\ serveWs_defer(c)
    /\ UNCHANGED <<game, outbox, mutex, broken, pingPc, bc>>

\* The ping goroutine: <-ticker.C, the ticker fires.
serveWs_ticker(c) ==
    /\ pingPc[c] = "ticking"
    /\ pingPc' = [pingPc EXCEPT ![c] = "writing"]
    /\ UNCHANGED <<game, clients, wsPc, winData, leaderboardData, outbox,
                   mutex, connClosed, broken, bc>>

\* A faulty serveWs_ping: the goroutine goes on after a failed ping.
serveWs_ping_GoesOn(c) ==
    /\ pingPc[c] = "writing"
    /\ \E written \in WriteResults(c) :
          pingPc' = [pingPc EXCEPT ![c] = "ticking"]
    /\ UNCHANGED <<game, clients, wsPc, winData, leaderboardData, outbox,
                   mutex, connClosed, broken, bc>>

\* The ping goroutine: conn.WriteMessage(websocket.PingMessage, nil); on an
\* error it logs "Ping failed" and returns.
serveWs_ping(c) ==
    /\ pingPc[c] = "writing"
    /\ \E written \in WriteResults(c) :
          pingPc' = [pingPc EXCEPT ![c] = IF written THEN "ticking" ELSE "done"]
    /\ UNCHANGED <<game, clients, wsPc, winData, leaderboardData, outbox,
                   mutex, connClosed, broken, bc>>

\* broadcastLeaderboard is called; fetchAllUserStats: winData :=
\* HGetAll("win").
broadcastLeaderboard(n) ==
    /\ bcPc = "idle"
    /\ n = npub + 1
    /\ npub' = n
    /\ bcWinData' = win
    /\ bcPc' = "fetchLose"
    /\ UNCHANGED <<game, clients, ws, outbox, mutex, connClosed, broken,
                   bcData, bcTodo, bcConn, bcSeen>>

\* fetchAllUserStats: loseData := HGetAll("lose"); leaderboardData is built.
broadcastLeaderboard_fetch ==
    /\ bcPc = "fetchLose"
    /\ bcData' = fetchAllUserStats(bcWinData, lose)
    /\ bcWinData' = [u \in Users |-> Absent]
    /\ bcPc' = "lock"
    /\ UNCHANGED <<game, clients, ws, outbox, mutex, connClosed, broken,
                   bcTodo, bcConn, bcSeen, npub>>

\* mutex.Lock(); the range over clients begins.
broadcastLeaderboard_Lock ==
    /\ bcPc = "lock"
    /\ ~mutex
    /\ mutex' = TRUE
    /\ bcTodo' = clients
    /\ bcSeen' = clients
    /\ bcPc' = "range"
    /\ UNCHANGED <<game, clients, ws, outbox, connClosed, broken, bcWinData,
                   bcData, bcConn, npub>>

\* for conn := range clients: the next connection, whose WriteJSON begins;
\* after the last one mutex.Unlock() and the function returns.
broadcastLeaderboard_range ==
    /\ bcPc = "range"
    /\ IF bcTodo = {}
       THEN /\ mutex' = FALSE
            /\ bcPc' = "idle"
            /\ bcData' = {}
            /\ bcSeen' = {}
            /\ UNCHANGED <<bcTodo, bcConn>>
       ELSE /\ \E c \in bcTodo :
                  /\ bcConn' = c
                  /\ bcTodo' = bcTodo \ {c}
            /\ bcPc' = "write"
            /\ UNCHANGED <<mutex, bcData, bcSeen>>
    /\ UNCHANGED <<game, clients, ws, outbox, connClosed, broken, bcWinData,
                   npub>>

\* A faulty broadcastLeaderboard_WriteJSON: a failed write ends the
\* broadcast.
broadcastLeaderboard_WriteJSON_Return ==
    /\ bcPc = "write"
    /\ \E written \in WriteResults(bcConn) :
          IF written
          THEN /\ outbox' = [outbox EXCEPT ![bcConn] =
                     Append(@, [by |-> "broadcastLeaderboard",
                                publish |-> npub, data |-> bcData])]
               /\ bcPc' = "range"
               /\ UNCHANGED <<clients, connClosed, mutex>>
          ELSE /\ connClosed' = connClosed \cup {bcConn}
               /\ clients' = clients \ {bcConn}
               /\ mutex' = FALSE
               /\ bcPc' = "idle"
               /\ UNCHANGED outbox
    /\ bcConn' = NoConn
    /\ UNCHANGED <<game, ws, broken, bcWinData, bcData, bcTodo, bcSeen, npub>>

\* conn.WriteJSON(leaderboardData) returns; on an error conn.Close() and
\* delete(clients, conn), and the range goes on.
broadcastLeaderboard_WriteJSON ==
    /\ bcPc = "write"
    /\ \E written \in WriteResults(bcConn) :
          IF written
          THEN /\ outbox' = [outbox EXCEPT ![bcConn] =
                     Append(@, [by |-> "broadcastLeaderboard",
                                publish |-> npub, data |-> bcData])]
               /\ UNCHANGED <<clients, connClosed>>
          ELSE /\ connClosed' = connClosed \cup {bcConn}
               /\ clients' = clients \ {bcConn}
               /\ UNCHANGED outbox
    /\ bcConn' = NoConn
    /\ bcPc' = "range"
    /\ UNCHANGED <<game, ws, mutex, broken, bcWinData, bcData, bcTodo, bcSeen,
                   npub>>

\* The steps of the handler of one request.
Handler(p) ==
    \/ \E u \in Users : startGame(p, u)
    \/ startGame_existingDeck(p)
    \/ initializeDeck(p)
    \/ startGame_newDeck(p)
    \/ startGame_win(p)
    \/ startGame_lose(p)
    \/ \E u \in Users : drawCard(p, u)
    \/ drawCard_deck(p)
    \/ drawCard_LRem(p)
    \/ handleDrawnCard_hasDefuse(p)
    \/ handleDrawnCard_defused(p)
    \/ handleDrawnCard_defuse(p)
    \/ updateUserStats_HGet(p)
    \/ updateUserStats_HSet(p)
    \/ resetGame_Del(p)
    \/ resetGame_RPush(p)
    \/ resetGame_defuse(p)

\* The steps of drawCard in which a Redis command returns an error.
Fault(p) ==
    \/ drawCard_deck_err(p)
    \/ drawCard_LRem_err(p)
    \/ handleDrawnCard_hasDefuse_err(p)
    \/ updateUserStats_HGet_err(p)
    \/ updateUserStats_HSet_err(p)

\* The steps of serveWs for one connection: the handler goroutine and the
\* ping goroutine it starts.
Observer(c) ==
    \/ serveWs_register(c)
    \/ fetchAllUserStats_winData(c)
    \/ fetchAllUserStats_loseData(c)
    \/ sendLeaderboard(c)
    \/ serveWs_ReadMessage(c)
    \/ serveWs_ticker(c)
    \/ serveWs_ping(c)

\* The steps of one call of broadcastLeaderboard after the other.
Publisher ==
    \/ \E n \in 1..MaxPublishes : broadcastLeaderboard(n)
    \/ broadcastLeaderboard_fetch
    \/ broadcastLeaderboard_Lock
    \/ broadcastLeaderboard_range
    \/ broadcastLeaderboard_WriteJSON

\* The game routes, with concurrent requests.
Next == \E p \in Procs : Handler(p)

\* The game routes, one request at a time, and the websocket route with
\* one connection.
\* (No handler calls broadcastLeaderboard: the only leaderboard a
\* connection is sent is the one of sendLeaderboard.)
NextHub ==
    \/ \E p \in HubProcs : Handler(p)
    \/ \E c \in Conns : Observer(c)
    \/ \E c \in Conns : connBreaks(c)

\* The websocket route with broadcastLeaderboard called, as a handler that
\* publishes the leaderboard would call it.  (The game routes are left to
\* Spec and SpecHub: the broadcast reads the two hashes and nothing else of
\* the store.)
NextPublish ==
    \/ \E c \in Conns : Observer(c)
    \/ \E c \in Conns : connBreaks(c)
    \/ Publisher

\* The game routes, one request at a time, with a store that can fail.
NextFault == \E p \in HubProcs : Handler(p) \/ Fault(p)

Spec == Init /\ [][Next]_vars

SpecFault == Init /\ [][NextFault]_vars

SpecHub == InitHub /\ [][NextHub]_vars

SpecPublish == Init /\ [][NextPublish]_vars

\* The handler goroutine of serveWs once the connection is registered.
serveWs(c) ==
    \/ fetchAllUserStats_winData(c)
    \/ fetchAllUserStats_loseData(c)
    \/ sendLeaderboard(c)
    \/ serveWs_ReadMessage(c)

\* The ping goroutine of serveWs.
serveWs_go(c) == serveWs_ticker(c) \/ serveWs_ping(c)

\* A call of broadcastLeaderboard once it is made.
broadcastLeaderboard_run ==
    \/ broadcastLeaderboard_fetch
    \/ broadcastLeaderboard_Lock
    \/ broadcastLeaderboard_range
    \/ broadcastLeaderboard_WriteJSON

\* SpecPublish with the goroutines scheduled: a goroutine that can take a
\* step takes it, and the ticker fires.  Connections arriving, connections
\* breaking and calls of broadcastLeaderboard may or may not happen.
SpecLive ==
    /\ Init
    /\ [][NextPublish]_vars
    /\ \A c \in Conns : WF_vars(serveWs(c)) /\ WF_vars(serveWs_go(c))
    /\ WF_vars(broadcastLeaderboard_run)

(***************************************************************************)
(* Properties.                                                             *)
(***************************************************************************)
\* Handler p answers and returns in this step.
Returns(p) == pc[p] # "idle" /\ pc'[p] = "idle"

\* A deck of exactly the five cards: two Cat, one Defuse, one Shuffle, one
\* Exploding Kitten, in any order.
IsFreshDeck(d) ==
    /\ Len(d) = 5
    /\ Count(d, Cat) = 2
    /\ Count(d, Defuse) = 1
    /\ Count(d, Shuffle) = 1
    /\ Count(d, ExplodingKitten) = 1

\* No handler is serving a request.
Quiescent == \A p \in Procs : pc[p] = "idle"

\* C1: when a startGame of a username returns right after another startGame
\* of that username (no drawCard of the username accepted in between, no
\* other request of the username overlapping either call), it answers
\* "Resuming game" with the deck the first call returned, card for card, and
\* the stored deck is that same deck.
C1_StartGameTwice ==
    [][\A p \in Procs :
          (op[p] = "startGame" /\ Returns(p) /\ alone[p]
              /\ lastStart[usr[p]].valid)
          => /\ resp'.kind = "Resumed"
             /\ resp'.deck = lastStart[usr[p]].deck
             /\ deck'[usr[p]] = deck[usr[p]]
             /\ deck'[usr[p]] = lastStart[usr[p]].deck]_vars

\* C1 witness: a second startGame in a row has returned the deck of the
\* first, resuming the game.
C1_Witness ==
    \E u \in Users :
        /\ lastStart[u].calls >= 2
        /\ resp.user = u /\ resp.kind = "Resumed"
        /\ Len(resp.deck) = 5

\* C2: a drawCard that drew the Exploding Kitten and read a defuse count of
\* 0 answers "You lose!" and does not change the wins of the username; when
\* no other request of the username overlapped it, the losses of the username
\* are one more than when the request began (a missing counter counts as 0)
\* and the wins are what they were.
C2_KittenWithoutDefuse ==
    [][\A p \in Procs :
          (op[p] = "drawCard" /\ Returns(p)
              /\ drawnCard[p] = ExplodingKitten /\ defuseCount[p] = 0)
          => /\ resp'.kind = "PlayerLost"
             /\ win'[usr[p]] = win[usr[p]]
             /\ alone[p] => /\ lose'[usr[p]] = Atoi(pre[p].lose) + 1
                            /\ win'[usr[p]] = pre[p].win]_vars

\* C2 witness: a lone drawCard has answered "You lose!" and the username has
\* a recorded loss and the wins startGame stored.
C2_Witness ==
    /\ resp.kind = "PlayerLost" /\ resp.alone
    /\ resp.user \in Users
    /\ lose[resp.user] = 1 /\ win[resp.user] = 0
    /\ Quiescent

\* C3: after a drawCard that answered "You lose!" (no other request of the
\* username overlapping it) the stored deck is a fresh deck of the five
\* cards and the defuse count is 0.
C3_LossResetsDeck ==
    [][\A p \in Procs :
          (Returns(p) /\ resp'.kind = "PlayerLost" /\ alone[p])
          => /\ IsFreshDeck(deck'[usr[p]])
             /\ Atoi(defuse'[usr[p]]) = 0]_vars

CounterStep(a, b) ==
    \/ b = a
    \/ a = Absent /\ b = 0
    \/ b = Atoi(a) + 1

\* C5: in every step the wins and the losses of every username stay, are
\* set to 0 from absent, or grow by exactly 1: they never decrease and are
\* never reset.
C5_CountersNeverReset ==
    [][\A u \in Users :
          CounterStep(win[u], win'[u]) /\ CounterStep(lose[u], lose'[u])]_vars

\* C6: once no loss event of a username is between its read and its write,
\* the losses are the value startGame last stored plus the number of loss
\* events recorded since, whatever the interleaving.
C6_LossesAddUp ==
    \A u \in Users :
        (/\ expected[u] # Unknown
         /\ ~\E q \in Procs : usr[q] = u /\ pc[q] = "usSet" /\ ~isWin[q])
        => Atoi(lose[u]) = expected[u]

\* C7: every stored deck has between 0 and 5 cards.
C7_DeckAtMostFive == \A u \in Users : Len(deck[u]) \in 0..5

\* C8: a drawCard of a username for which startGame was never called fails
\* with NoSessionError, and the deck, the defuse count, the wins and the
\* losses of the username are what they were when the request began.
C8_NoSessionNoChange ==
    [][\A p \in Procs :
          (op[p] = "drawCard" /\ Returns(p) /\ ~started[usr[p]])
          => /\ resp'.kind = "NoSessionError"
             /\ deck'[usr[p]] = <<>>
             /\ defuse'[usr[p]] = Absent
             /\ win'[usr[p]] = pre[p].win
             /\ lose'[usr[p]] = pre[p].lose]_vars

\* The leaderboard snap shows the counters username u has now.
Reflects(snap, u) ==
    \E r \in snap :
        r.username = u /\ r.win = win[u] /\ r.lose = Atoi(lose[u])

\* C9: once no request is being served, every connection that is in
\* clients and was there when a drawCard changed a counter of a username
\* has been sent a leaderboard that shows that username's counters.
C9_ChangePublished ==
    \A c \in Conns :
        (Quiescent /\ c \in clients /\ wsPc[c] = "reading")
        => \A u \in changed[c] :
               /\ Len(outbox[c]) > 0
               /\ Reflects(outbox[c][Len(outbox[c])].data, u)

\* C10: when a startGame that found no deck, or a drawCard that drew the
\* Shuffle card, has pushed its deck and when it returns (no other request
\* of the username overlapping it), the stored deck is a fresh deck of the
\* five cards; startGame returns that deck.
C10_NewDeckIsFresh ==
    [][\A p \in Procs :
          /\ (alone[p] /\ pc[p] \in {"sgPush", "rgPush"} /\ pc'[p] # pc[p])
             => IsFreshDeck(deck'[usr[p]])
          /\ (alone[p] /\ Returns(p) /\ resp'.kind = "DeckReshuffled")
             => IsFreshDeck(deck'[usr[p]])
          /\ (alone[p] /\ Returns(p) /\ resp'.kind = "Started")
             => /\ IsFreshDeck(deck'[usr[p]])
                /\ resp'.deck = deck'[usr[p]]]_vars

\* C10 witness: a lone drawCard has drawn the Shuffle card from a deck that
\* startGame created, and the deck stored now is a fresh five-card deck.
C10_Witness ==
    /\ resp.kind = "DeckReshuffled" /\ resp.alone
    /\ resp.user \in Users
    /\ started[resp.user]
    /\ IsFreshDeck(deck[resp.user])
    /\ Quiescent

\* The deck after is the deck before without one occurrence of card, the
\* other cards in their order.
RemovedOne(before, after, card) ==
    \E i \in 1..Len(before) :
        /\ before[i] = card
        /\ after = SubSeq(before, 1, i - 1) \o SubSeq(before, i + 1, Len(before))

\* The card an answer of drawCard names.
CardOf(kind) ==
    CASE kind = "CatDrawn" -> Cat
      [] kind = "DefuseAcquired" -> Defuse
      [] kind = "Defused" -> ExplodingKitten
      [] OTHER -> ""

\* C11: when a drawCard that no other request of the username overlapped
\* answers with a Cat card, a kept Defuse card or a defused Exploding Kitten,
\* the stored deck is the deck of the beginning of the request without one
\* occurrence of the card of that kind, so it is exactly one card shorter.
C11_DrawRemovesOneCard ==
    [][\A p \in Procs :
          (op[p] = "drawCard" /\ Returns(p) /\ alone[p]
              /\ resp'.kind \in {"CatDrawn", "DefuseAcquired", "Defused"})
          => /\ drawnCard[p] = CardOf(resp'.kind)
             /\ RemovedOne(pre[p].deck, deck'[usr[p]], drawnCard[p])
             /\ Len(deck'[usr[p]]) = Len(pre[p].deck) - 1
             /\ \A k \in {Cat, Defuse, Shuffle, ExplodingKitten} :
                   Count(deck'[usr[p]], k) =
                       Count(pre[p].deck, k) - (IF k = drawnCard[p] THEN 1 ELSE 0)]_vars

\* C11 witness: a lone drawCard has drawn one of the two Cat cards of a
\* fresh deck; four cards are left, one of them a Cat.
C11_Witness ==
    /\ resp.kind = "CatDrawn" /\ resp.alone
    /\ resp.user \in Users
    /\ Len(deck[resp.user]) = 4
    /\ Count(deck[resp.user], Cat) = 1
    /\ Quiescent

\* C12: in every reachable state, whatever the interleaving of startGame
\* and drawCard requests, the defuse count of every username is at least 0
\* and at most the number of Defuse cards the username has drawn minus the
\* number of defuse counts used up against an Exploding Kitten.
C12_DefuseWithinCredit ==
    \A u \in Users :
        /\ Atoi(defuse[u]) >= 0
        /\ Atoi(defuse[u]) <= credit[u]

\* The username whose request handler p serves in this step.
Served(p) == IF pc[p] = "idle" THEN usr'[p] ELSE usr[p]

\* C13: whatever the interleaving, a step of the handler of a request of
\* one username leaves the deck, the defuse count, the wins and the losses
\* of every other username as they are; so what a username's requests find
\* and store is what they would without the other username's requests.
C13_UsernamesDoNotInterfere ==
    [][\A p \in Procs :
          pc'[p] # pc[p]
          => \A v \in Users \ {Served(p)} :
                 /\ deck'[v] = deck[v]
                 /\ defuse'[v] = defuse[v]
                 /\ win'[v] = win[v]
                 /\ lose'[v] = lose[v]]_vars

\* C13 witness: a drawCard of one username and a startGame of another are
\* being served at once, the first with its card removed from a four-card
\* deck, the second with its five cards pushed.
C13_Witness ==
    \E p, q \in Procs :
        /\ usr[p] # usr[q]
        /\ op[p] = "drawCard" /\ pc[p] \in {"hdDefuseGet", "hdDefuseSet", "rgDel"}
        /\ op[q] = "startGame" /\ pc[q] = "sgRange"
        /\ Len(deck[usr[p]]) = 4
        /\ Len(deck[usr[q]]) = 5

\* The leaderboard the broadcast in progress writes.
Published == [by |-> "broadcastLeaderboard", publish |-> npub, data |-> bcData]

\* C14: a WriteJSON of broadcastLeaderboard that fails takes its connection
\* out of clients and closes it, one that succeeds delivers the leaderboard
\* of this broadcast, and neither touches another connection; when the
\* broadcast ends, every connection that was in clients when it began has
\* either been taken out and closed or been sent the leaderboard of this
\* broadcast.
C14_FailedObserverDropped ==
    [][/\ (bcPc = "write" /\ bcPc' # "write")
          => /\ \/ /\ outbox'[bcConn] = Append(outbox[bcConn], Published)
                   /\ clients' = clients
                   /\ connClosed' = connClosed
                \/ /\ outbox'[bcConn] = outbox[bcConn]
                   /\ clients' = clients \ {bcConn}
                   /\ connClosed' = connClosed \cup {bcConn}
             /\ \A d \in Conns \ {bcConn} : outbox'[d] = outbox[d]
       /\ (bcPc # "idle" /\ bcPc' = "idle")
          => \A c \in bcSeen :
                 \/ c \notin clients' /\ c \in connClosed'
                 \/ \E i \in 1..Len(outbox'[c]) : outbox'[c][i] = Published]_vars

\* C14 witness: a broadcast has ended; it closed one connection, whose
\* serveWs has not returned yet, and another connection, still in clients,
\* was sent its leaderboard.
C14_Witness ==
    /\ bcPc = "idle" /\ npub >= 1
    /\ \E c, d \in Conns :
          /\ c \in connClosed /\ c \notin clients /\ wsPc[c] # "closed"
          /\ d \in clients /\ d \notin connClosed
          /\ \E i \in 1..Len(outbox[d]) :
                 outbox[d][i].by = "broadcastLeaderboard"

\* C15: when a ping of the ping goroutine fails, the connection is out of
\* clients and closed, as after a failed WriteJSON of the broadcast.
C15_PingFailureUnregisters ==
    [][\A c \in Conns :
          (pingPc[c] = "writing" /\ pingPc'[c] = "done")
          => c \notin clients' /\ c \in connClosed']_vars

\* C16: the leaderboard fetchAllUserStats returns has one record for every
\* username that HGetAll("win") or HGetAll("lose") returned a field for,
\* with the counts read, 0 for the one that is missing.
C16_LeaderboardJoinsBoth ==
    [][\A c \in Conns :
          (wsPc[c] = "fetchLose" /\ wsPc'[c] = "send")
          => \A u \in Users :
                 (winData[c][u] # Absent \/ lose[u] # Absent)
                 => \E r \in leaderboardData'[c] :
                        /\ r.username = u
                        /\ r.win = Atoi(winData[c][u])
                        /\ r.lose = Atoi(lose[u])]_vars

\* The leaderboards in box that sendLeaderboard wrote.
Initial(box) == {i \in 1..Len(box) : box[i].by = "sendLeaderboard"}

\* C17: the first step of serveWs puts the connection into clients and
\* writes nothing; no step of serveWs for one connection writes to another
\* connection; the write of sendLeaderboard adds one leaderboard, of the
\* counters just fetched, to the new connection, which is in clients; and
\* a connection serveWs is reading from has been sent exactly one
\* leaderboard by sendLeaderboard, no connection more than one.
C17_RegisterSendsOneSnapshot ==
    [][\A c \in Conns :
          /\ (wsPc[c] = "new" /\ wsPc'[c] # "new")
             => clients' = clients \cup {c} /\ outbox' = outbox
          /\ (wsPc'[c] # wsPc[c] \/ pingPc'[c] # pingPc[c])
             => \A d \in Conns \ {c} : outbox'[d] = outbox[d]
          /\ (wsPc[c] = "send" /\ wsPc'[c] = "reading")
             => /\ c \in clients
                /\ outbox'[c] = Append(outbox[c],
                       [by |-> "sendLeaderboard", publish |-> 0,
                        data |-> leaderboardData[c]])
          /\ wsPc'[c] = "reading" => Cardinality(Initial(outbox'[c])) = 1
          /\ Cardinality(Initial(outbox'[c])) <= 1]_vars

\* C17 witness: two connections are in clients and serveWs is reading
\* from both; one was sent a leaderboard by a broadcast and then its one
\* leaderboard by sendLeaderboard, the other only its one leaderboard by
\* sendLeaderboard.
C17_Witness ==
    \E c, d \in Conns :
        /\ c # d
        /\ {c, d} \subseteq clients
        /\ wsPc[c] = "reading" /\ wsPc[d] = "reading"
        /\ Len(outbox[c]) = 2
        /\ outbox[c][1].by = "broadcastLeaderboard"
        /\ outbox[c][2].by = "sendLeaderboard"
        /\ Len(outbox[d]) = 1
        /\ outbox[d][1].by = "sendLeaderboard"

\* C19: while a WriteJSON of broadcastLeaderboard is in progress the mutex
\* of clients is not locked.
C19_NoLockDuringWrite == bcPc = "write" => ~mutex

\* serveWs has returned for connection c and its ping goroutine, if it was
\* started, has returned.
Terminated(c) == wsPc[c] = "closed" /\ pingPc[c] \in {"none", "done"}

C18_FailedDrawChangesNothing ==
    [][\A p \in Procs :
          (op[p] = "drawCard" /\ Returns(p) /\ failed'[p] /\ alone[p]
              /\ pre[p].session)
          => /\ resp'.kind = "StorageError"
             /\ deck'[usr[p]] = pre[p].deck
             /\ defuse'[usr[p]] = pre[p].defuse
             /\ win'[usr[p]] = pre[p].win
             /\ lose'[usr[p]] = pre[p].lose]_vars

\* C21: in every interleaving, the LRem of a drawCard that goes on to a
\* card outcome takes exactly one card out of the deck of the username; so
\* the draws that return a card outcome are as many as the cards removed.
C21_EveryDrawRemovesACard ==
    [][\A p \in Procs :
          (pc[p] = "dcRem" /\ pc'[p] # "dcRem")
          => Len(deck'[usr[p]]) = Len(deck[usr[p]]) - 1]_vars

\* The goroutines that are at a write on connection c: sendLeaderboard's
\* WriteJSON, the ping goroutine's WriteMessage, broadcastLeaderboard's
\* WriteJSON.
Writers(c) ==
    {w \in {"sendLeaderboard", "ping", "broadcastLeaderboard"} :
        \/ w = "sendLeaderboard" /\ wsPc[c] = "send"
        \/ w = "ping" /\ pingPc[c] = "writing"
        \/ w = "broadcastLeaderboard" /\ bcPc = "write" /\ bcConn = c}

\* C22: at any time at most one of sendLeaderboard, the ping goroutine and
\* broadcastLeaderboard is at a write on a given connection.
C22_OneWriterPerConnection ==
    \A c \in Conns : Cardinality(Writers(c)) <= 1

====
